---- MODULE Spec2Model ----
(***************************************************************************)
(* Model of the live index engine of App.py: the cache updater thread      *)
(* (update_file_cache), the filesystem watcher with its debounce timers    *)
(* (FileChangeHandler), the /updates event stream, the requests to / and   *)
(* /file/ (index, serve_file) and the start and shutdown path              *)
(* (start_background_threads, stop_background_threads).  Each thread is a  *)
(* process with a program                                                  *)
(* counter named after the source line it is about to execute; one action  *)
(* is one statement (or one run of statements touching only locals).       *)
(***************************************************************************)
EXTENDS Integers, Sequences, FiniteSets, TLC

(***************************************************************************)
(* Bounds of the model.                                                    *)
(***************************************************************************)
NumPaths == 7        \* files that may exist under HOME_FOLDER
MaxMtime == 2        \* distinct modification times a file may take
MaxFsChanges == 2    \* filesystem changes in one behaviour of SpecCache and Spec
MaxTouched == 2      \* single-file changes concern the files 1..MaxTouched
MaxEvents == 2       \* watcher events in one behaviour of SpecWatch, SpecMark and Spec
StreamEvents == 2    \* watcher events in one behaviour of SpecStream
NotifyEvents == 1    \* watcher events in one behaviour of SpecNotify
BurstLen == 10       \* watcher events in one behaviour of SpecDebounce
MaxEventPath == 2    \* watcher events concern the files 1..MaxEventPath
MsgCap == 2          \* msgs_since_publish stops counting here
ShortRun == 2        \* ticks of the scheduler in SpecWatch, SpecStream and Spec
MaxTime == 13        \* last clock value (seconds) the scheduler may reach
MaxOversleep == 1    \* seconds by which a sleep of one second may run over
DayLength == 2       \* seconds of one calendar day, in the units of st_mtime
BelowFirst == 1      \* requested page numbers start at -BelowFirst
MaxPage == 4
MaxMatches == 45     \* records in the snapshot of SpecPage
MaxSegments == 4     \* segments of the name a request to /file/ asks for

(***************************************************************************)
(* Program constants.                                                      *)
(***************************************************************************)
FILES_PER_PAGE == 20
CACHE_EXPIRY == 5
FileCountDelta == 5
PreviewLimit == 5
StartTime == 6       \* time.time() at start: any value above CACHE_EXPIRY

Paths == 1..NumPaths
NumDirs == 2
Dirs == 1..NumDirs

SUPPORTED_EXTENSIONS ==
    { <<"p","d","f">>, <<"d","o","c","x">>, <<"x","l","s","x">>, <<"z","i","p">> }

(***************************************************************************)
(* The files of the tree: base name, directory and archive content.        *)
(* Directory 1 is HOME_FOLDER itself ("~"), directory 2 the folder "~/s".  *)
(***************************************************************************)
NameTable ==
    << <<"b",".","z","i","p">>,
       <<"n",".","t","x","t">>,
       <<"a",".","p","d","f">>,
       <<"c",".","D","O","C","X">>,
       <<"e",".","z","i","p">>,
       <<"d",".","v","2",".","x","l","s","x">>,
       <<"f",".","P","D","F">>,
       <<"R","E","A","D","M","E">> >>

NameOf(p) == NameTable[((p - 1) % Len(NameTable)) + 1]
\* the names of the table repeat from path Len(NameTable) + 1 on, in folders
\* further down ("~/s/s", ...), so that every path is a file of its own
DirOf(p) == ((p - 1) % NumDirs) + 1 + NumDirs * ((p - 1) \div Len(NameTable))
DirPath(d) == <<"~">> \o [i \in 1..(2 * (d - 1)) |-> IF i % 2 = 1 THEN "/" ELSE "s"]

\* os.path.join(root, file)
FullPathStr(p) == DirPath(DirOf(p)) \o <<"/">> \o NameOf(p)

\* line 125: os.path.dirname(os.path.relpath(full_path, HOME_FOLDER)) or '/'
FolderOf(p) ==
    IF DirOf(p) = 1 THEN <<"/">>
    ELSE SubSeq(DirPath(DirOf(p)), 3, Len(DirPath(DirOf(p))))

\* zipfile.ZipFile(path).namelist(): entry names (numbered), or a corrupt archive
ArchiveCorrupt(p) == p % 5 = 0
ArchiveNames(p) == [i \in 1..(5 + (p % 3)) |-> i]

(***************************************************************************)
(* String helpers: str.lower() and str.split('.')[-1].                     *)
(***************************************************************************)
LowerChar(c) ==
    CASE c = "P" -> "p" [] c = "D" -> "d" [] c = "F" -> "f" [] c = "O" -> "o"
      [] c = "C" -> "c" [] c = "X" -> "x" [] c = "R" -> "r" [] c = "E" -> "e"
      [] c = "A" -> "a" [] c = "M" -> "m" [] c = "S" -> "s" [] OTHER -> c

Lower(s) == [i \in 1..Len(s) |-> LowerChar(s[i])]

HasDot(s) == \E i \in 1..Len(s) : s[i] = "."

LastSplit(s) ==
    LET dots == {i \in 1..Len(s) : s[i] = "."}
        last == IF dots = {} THEN 0 ELSE CHOOSE i \in dots : \A j \in dots : j <= i
    IN  SubSeq(s, last + 1, Len(s))

\* lines 93-95: the extension test of the first pass, on the base name
WalkAccepts(p) ==
    /\ HasDot(NameOf(p))
    /\ LastSplit(Lower(NameOf(p))) \in SUPPORTED_EXTENSIONS

\* the text after the last dot of the full path, as it is spelled
ExtAsSpelled(p) == LastSplit(FullPathStr(p))

\* line 104: the extension of the second pass, on the full path
ExtOf(p) == LastSplit(Lower(FullPathStr(p)))

(***************************************************************************)
(* get_zip_contents (lines 68-73): the first five names, or None.          *)
(***************************************************************************)
NoneValue == [is_none |-> TRUE, names |-> <<>>]
SomeValue(s) == [is_none |-> FALSE, names |-> s]

\* every name of the archive
zip_namelist(p) == SomeValue(ArchiveNames(p))

get_zip_contents(p) ==
    IF ArchiveCorrupt(p)
    THEN NoneValue
    ELSE LET n == ArchiveNames(p)
         IN  SomeValue(SubSeq(n, 1, IF Len(n) < PreviewLimit THEN Len(n) ELSE PreviewLimit))

(***************************************************************************)
(* The record built at lines 118-129.  The fields path, size, modified_str *)
(* and icon are formatted from the same path and stat result and are left  *)
(* out.                                                                    *)
(***************************************************************************)
NewRecord(p, mtime) ==
    [ full_path |-> p,
      name |-> NameOf(p),
      folder |-> FolderOf(p),
      type |-> ExtOf(p),
      modified |-> mtime,
      zip_contents |-> IF ExtOf(p) = <<"z","i","p">> THEN get_zip_contents(p) ELSE NoneValue ]

(***************************************************************************)
(* list.sort(key=lambda x: -x['modified']): a stable sort, newest first.   *)
(***************************************************************************)
\* the place of s[i] in the sorted list: behind every record that is newer,
\* and behind the records of the same st_mtime that were appended before it
RankDesc(s, i) ==
    1 + Cardinality({j \in 1..Len(s) : s[j].modified > s[i].modified})
      + Cardinality({j \in 1..(i - 1) : s[j].modified = s[i].modified})

\* the list in the order of the second pass
AsAppended(s) == s

SortDesc(s) == [k \in 1..Len(s) |-> s[CHOOSE i \in 1..Len(s) : RankDesc(s, i) = k]]

Range(s) == {s[i] : i \in 1..Len(s)}


VARIABLES
    \* the filesystem and the clock
    fs,                 \* path -> 0 (absent), 1..MaxMtime (st_mtime), -1 (stat raises EIO)
    root_ok,            \* HOME_FOLDER itself can be listed
    fs_left,            \* filesystem changes still to come
    now,                \* time.time(), in seconds
    \* module globals (lines 29-37)
    file_cache,
    last_cache_update,
    app_last_cache_update,
    cache_lock,
    stop_event,
    \* update_file_cache: position and locals
    pc_s,
    previous_files,
    current_files,
    walk_dir,
    todo,
    building,           \* the file whose record lines 115-127 are building, for line 128
    new_cache,
    files_updated,      \* the paths counted by files_updated (line 114)
    \* FileChangeHandler
    observer_on,
    debounce_timers,    \* path -> "none" (no entry), "pending", "fired" (entry of a started timer)
    running_timers,     \* timer threads between lines 63 and 66
    stray_timers,       \* timers that ran out before cancel() of line 54 reached them
    ev_left,            \* watcher events still to come
    clients_left,       \* /updates requests still to come
    \* the main thread
    pc_m,
    \* one /updates event stream
    pc_u,
    last_version,
    last_file_count,
    current_file_count,
    last_sent,          \* the last value yielded, -1 before the first
    \* history of the run, read by the properties only
    interrupted,        \* the current cycle left a loop on stop_event
    walk_failed,        \* the current cycle's walk could not list HOME_FOLDER
    inval_in_flight,    \* the watcher invalidated during the current cycle
    cycle_outcome,      \* "none", "published", "abandoned": how the last cycle ended
    published_partial,  \* file_cache was published by an interrupted cycle
    pub_version,        \* app.last_cache_update as stored by the last publish, -1 before
    n_signals,          \* writes of app.last_cache_update = 0 by the watcher
    n_expired,          \* debounce timers that have expired
    msgs_since_publish, \* messages yielded since the last publish
    stat_failed,        \* the paths whose stat raised line 131's errors in the current cycle
    quiet_cycles,       \* cycles started since the tree last changed (counted up to 2)
    pub_time,           \* time.time() of the last completed publish, -1 before
    inval_since_pub,    \* the watcher wrote a staleness marker since the last publish
    missed_event,       \* an event about a supported file requested no invalidation
    event_cycles,       \* cycles started after a write of the watcher (counted up to 2)
    \* one request to / (index, lines 180-253)
    pc_r,
    query,              \* the request arguments as lines 182-186 read them
    filtered_files,
    page_view,          \* what the template is rendered from
    queries_left,       \* requests to / still to come
    \* one request to /file/<path:filename> (serve_file, lines 1039-1041)
    filename,
    served

fsVars == <<fs, root_ok, fs_left, now>>
globalVars == <<file_cache, last_cache_update, app_last_cache_update, cache_lock, stop_event>>
schedVars == <<pc_s, previous_files, current_files, walk_dir, todo, building, new_cache,
               files_updated>>
watchVars == <<observer_on, debounce_timers, running_timers, stray_timers, ev_left>>
streamVars == <<pc_u, last_version, last_file_count, current_file_count, last_sent,
               clients_left>>
histVars == <<interrupted, walk_failed, inval_in_flight, cycle_outcome, published_partial,
              pub_version, n_signals, n_expired, msgs_since_publish>>
cycleHist == <<stat_failed, quiet_cycles, pub_time, inval_since_pub, missed_event,
               event_cycles>>
requestVars == <<pc_r, query, filtered_files, page_view, queries_left, filename, served>>
vars == <<fsVars, globalVars, schedVars, watchVars, pc_m, streamVars, histVars, cycleHist,
          requestVars>>

Reconciling == {"l89", "l100", "l128", "l134", "l136", "l137", "l138", "l139"}

\* the trees a behaviour may start from: no file, and a few files of different
\* ages (two archives, one of them corrupt, a document and an unsupported file)
MixedTree == [p \in Paths |-> 1 + ((p \div 3) % MaxMtime)]
SmallTree == [p \in Paths |-> IF p \in {1, 2, 4, 5} THEN MixedTree[p] ELSE 0]
InitialTrees == { [p \in Paths |-> 0], SmallTree }

\* no request to / and none to /file/ is being served
NoQuery == [search |-> <<>>, type |-> <<"a","l","l">>, page |-> 1, date_from |-> -1,
            date_to |-> -1]
NoView == [kind |-> "none"]
IdleIndex ==
    /\ pc_r = "idle"
    /\ query = NoQuery
    /\ filtered_files = <<>>
    /\ page_view = NoView
NotServed == [status |-> 0, opens |-> FALSE, path |-> <<>>]
NoFileRequest ==
    /\ filename = <<>>
    /\ served = NotServed

\* the watcher, the stream and the history before anything has run
InitRest(events, clients) ==
    /\ cache_lock = "free"
    /\ stop_event = FALSE
    /\ previous_files = {}
    /\ walk_dir = 1
    /\ todo = {}
    /\ building = [path |-> 0, mtime |-> 0]
    /\ debounce_timers = [p \in Paths |-> "none"]
    /\ running_timers = 0
    /\ stray_timers = 0
    /\ ev_left = events
    /\ clients_left = clients
    /\ pc_u = "closed"
    /\ last_version = 0
    /\ last_file_count = 0
    /\ current_file_count = 0
    /\ last_sent = -1
    /\ interrupted = FALSE
    /\ walk_failed = FALSE
    /\ inval_in_flight = FALSE
    /\ published_partial = FALSE
    /\ n_signals = 0
    /\ n_expired = 0
    /\ msgs_since_publish = 0
    /\ stat_failed = {}
    /\ inval_since_pub = FALSE
    /\ missed_event = FALSE
    /\ event_cycles = 0

\* the state after the module has been loaded (lines 12-37): nothing started
InitBoot(trees, changes, events, clients, queries, start) ==
    /\ fs \in trees
    /\ root_ok = TRUE
    /\ fs_left = changes
    /\ now = start
    /\ file_cache = <<>>
    /\ last_cache_update = 0
    /\ app_last_cache_update = 0
    /\ pc_s = "unstarted"
    /\ current_files = {}
    /\ new_cache = <<>>
    /\ files_updated = {}
    /\ observer_on = FALSE
    /\ pc_m = "l1050"
    /\ cycle_outcome = "none"
    /\ pub_version = -1
    /\ pub_time = -1
    /\ quiet_cycles = 0
    /\ InitRest(events, clients)
    /\ IdleIndex
    /\ queries_left = queries
    /\ NoFileRequest

InitWith(changes, events, clients, start) ==
    InitBoot(InitialTrees, changes, events, clients, 0, start)

\* the first n paths that the walk accepts, the tree in which the i-th of them
\* has st_mtime i, and the snapshot published from it: no two st_mtime are
\* equal, so the sort of line 134 gives this one list whatever the order in
\* which line 100 went through the set
RECURSIVE AcceptedFrom(_, _)
AcceptedFrom(p, n) ==
    IF n = 0 THEN <<>>
    ELSE IF WalkAccepts(p) THEN <<p>> \o AcceptedFrom(p + 1, n - 1)
         ELSE AcceptedFrom(p + 1, n)

ServingTree(n) ==
    [p \in 1..(IF n = 0 THEN 0 ELSE AcceptedFrom(1, n)[n]) |->
        IF WalkAccepts(p) THEN CHOOSE i \in 1..n : AcceptedFrom(1, n)[i] = p ELSE 1]
ServingCache(n) ==
    [i \in 1..n |-> NewRecord(AcceptedFrom(1, n)[n + 1 - i], n + 1 - i)]

\* app.run is serving requests; the cache thread has published the records of
\* the tree at StartTime and sleeps at line 147
InitServing(tree, cache) ==
    /\ fs = tree
    /\ root_ok = TRUE
    /\ fs_left = 0
    /\ now = StartTime
    /\ file_cache = cache
    /\ last_cache_update = StartTime
    /\ app_last_cache_update = StartTime
    /\ pc_s = "l147"
    /\ current_files = {cache[i].full_path : i \in 1..Len(cache)}
    /\ new_cache = cache
    /\ files_updated = {cache[i].full_path : i \in 1..Len(cache)}
    /\ observer_on = TRUE
    /\ pc_m = "l1057"
    /\ cycle_outcome = "published"
    /\ pub_version = StartTime
    /\ pub_time = StartTime
    /\ quiet_cycles = 1
    /\ InitRest(0, 0)


(***************************************************************************)
(* The filesystem, changed by other programs.                              *)
(***************************************************************************)
\* a file is created, or written again (its st_mtime moves on)
FsWrite(p) ==
    /\ fs_left > 0
    /\ quiet_cycles' = 0
    /\ fs[p] < MaxMtime
    /\ fs' = [fs EXCEPT ![p] = IF fs[p] <= 0 THEN 1 ELSE fs[p] + 1]
    /\ fs_left' = fs_left - 1
    /\ UNCHANGED <<root_ok, now, globalVars, schedVars, watchVars, pc_m, streamVars, histVars>>
    /\ UNCHANGED <<requestVars, missed_event, event_cycles, stat_failed, pub_time, inval_since_pub>>

FsDelete(p) ==
    /\ fs_left > 0
    /\ quiet_cycles' = 0
    /\ fs[p] # 0
    /\ fs' = [fs EXCEPT ![p] = 0]
    /\ fs_left' = fs_left - 1
    /\ UNCHANGED <<root_ok, now, globalVars, schedVars, watchVars, pc_m, streamVars, histVars>>
    /\ UNCHANGED <<requestVars, missed_event, event_cycles, stat_failed, pub_time, inval_since_pub>>

\* the file stays listed but os.stat on it raises an OSError other than
\* PermissionError and FileNotFoundError (an I/O error)
FsFault(p) ==
    /\ fs_left > 0
    /\ quiet_cycles' = 0
    /\ fs[p] > 0
    /\ fs' = [fs EXCEPT ![p] = -1]
    /\ fs_left' = fs_left - 1
    /\ UNCHANGED <<root_ok, now, globalVars, schedVars, watchVars, pc_m, streamVars, histVars>>
    /\ UNCHANGED <<requestVars, missed_event, event_cycles, stat_failed, pub_time, inval_since_pub>>

\* HOME_FOLDER loses its read permission (os.scandir on it raises, the entries
\* below it stay reachable), or gets it back
FsRootToggle ==
    /\ fs_left > 0
    /\ quiet_cycles' = 0
    /\ root_ok' = ~root_ok
    /\ fs_left' = fs_left - 1
    /\ UNCHANGED <<fs, now, globalVars, schedVars, watchVars, pc_m, streamVars, histVars>>
    /\ UNCHANGED <<requestVars, missed_event, event_cycles, stat_failed, pub_time, inval_since_pub>>

(***************************************************************************)
(* update_file_cache, lines 75-147.                                        *)
(***************************************************************************)
\* lines 76-77: previous_files is built once, when the thread starts
ThreadEntry ==
    /\ pc_s = "l77"
    /\ previous_files' = Range(file_cache)
    /\ pc_s' = "l79"
    /\ UNCHANGED <<fsVars, globalVars, current_files, walk_dir, todo, building, new_cache,
                   files_updated, watchVars, pc_m, streamVars, histVars>>
    /\ UNCHANGED <<requestVars, missed_event, event_cycles, stat_failed, quiet_cycles, pub_time, inval_since_pub>>

\* line 79: while not stop_event.is_set()
LoopTest ==
    /\ pc_s = "l79"
    /\ pc_s' = IF stop_event THEN "done" ELSE "l80"
    /\ UNCHANGED <<fsVars, globalVars, previous_files, current_files, walk_dir, todo,
                   building, new_cache, files_updated, watchVars, pc_m, streamVars, histVars>>
    /\ UNCHANGED <<requestVars, missed_event, event_cycles, stat_failed, quiet_cycles, pub_time, inval_since_pub>>

\* a test that looks at the marker of the watcher only
InvalidatedOnly == app_last_cache_update = 0

\* line 80
IsStale == now - last_cache_update > CACHE_EXPIRY \/ app_last_cache_update = 0

\* a cycle that started from the list published before
CarriedCache == file_cache

\* line 82: new_cache = []
FreshCache == <<>>

\* lines 80-85: the cycle starts
CycleStart ==
    /\ pc_s = "l80"
    /\ IsStale
    /\ new_cache' = FreshCache
    /\ files_updated' = {}
    /\ current_files' = {}
    /\ walk_dir' = 1
    /\ pc_s' = "l89"
    /\ interrupted' = FALSE
    /\ walk_failed' = FALSE
    /\ inval_in_flight' = FALSE
    /\ stat_failed' = {}
    /\ quiet_cycles' = IF quiet_cycles < 2 THEN quiet_cycles + 1 ELSE 2
    /\ event_cycles' = IF inval_since_pub /\ event_cycles < 2 THEN event_cycles + 1
                       ELSE event_cycles
    /\ UNCHANGED <<fsVars, globalVars, previous_files, todo, building, watchVars, pc_m,
                   streamVars, cycle_outcome, published_partial, pub_version, n_signals,
                   n_expired, msgs_since_publish>>
    /\ UNCHANGED <<requestVars, missed_event, pub_time, inval_since_pub>>

\* line 80, condition false
CycleSkip ==
    /\ pc_s = "l80"
    /\ ~IsStale
    /\ pc_s' = "l147"
    /\ UNCHANGED <<fsVars, globalVars, previous_files, current_files, walk_dir, todo,
                   building, new_cache, files_updated, watchVars, pc_m, streamVars, histVars>>
    /\ UNCHANGED <<requestVars, missed_event, event_cycles, stat_failed, quiet_cycles, pub_time, inval_since_pub>>

\* the files of directory d that line 93-97 adds to current_files
Listing(d) == {p \in Paths : DirOf(p) = d /\ fs[p] # 0 /\ WalkAccepts(p)}

\* line 89, os.walk(HOME_FOLDER) with no onerror: a directory that cannot be
\* listed is skipped silently, so an unreadable root ends the walk with nothing
WalkUnreadable ==
    /\ pc_s = "l89"
    /\ walk_dir = 1
    /\ ~root_ok
    /\ walk_failed' = TRUE
    /\ todo' = current_files
    /\ pc_s' = "l100"
    /\ UNCHANGED <<fsVars, globalVars, previous_files, building, current_files, walk_dir, new_cache,
                   files_updated, watchVars, pc_m, streamVars, interrupted, inval_in_flight,
                   cycle_outcome, published_partial, pub_version, n_signals, n_expired,
                   msgs_since_publish>>
    /\ UNCHANGED <<requestVars, missed_event, event_cycles, stat_failed, quiet_cycles, pub_time, inval_since_pub>>

\* lines 90-91: stop_event is set when os.walk yields directory walk_dir
WalkBreak ==
    /\ pc_s = "l89"
    /\ (walk_dir = 1 => root_ok)
    /\ stop_event
    /\ interrupted' = TRUE
    /\ todo' = current_files
    /\ pc_s' = "l100"
    /\ UNCHANGED <<fsVars, globalVars, previous_files, building, current_files, walk_dir, new_cache,
                   files_updated, watchVars, pc_m, streamVars, walk_failed, inval_in_flight,
                   cycle_outcome, published_partial, pub_version, n_signals, n_expired,
                   msgs_since_publish>>
    /\ UNCHANGED <<requestVars, missed_event, event_cycles, stat_failed, quiet_cycles, pub_time, inval_since_pub>>

\* lines 89-97: one directory of the walk; after the last one the second pass
\* starts, iterating the set current_files in an order the program does not fix
WalkDir ==
    /\ pc_s = "l89"
    /\ (walk_dir = 1 => root_ok)
    /\ ~stop_event
    /\ current_files' = current_files \cup Listing(walk_dir)
    /\ IF walk_dir < NumDirs
       THEN /\ walk_dir' = walk_dir + 1
            /\ UNCHANGED <<pc_s, todo>>
       ELSE /\ todo' = current_files'
            /\ pc_s' = "l100"
            /\ UNCHANGED walk_dir
    /\ UNCHANGED <<fsVars, globalVars, previous_files, building, new_cache, files_updated, watchVars,
                   pc_m, streamVars, histVars>>
    /\ UNCHANGED <<requestVars, missed_event, event_cycles, stat_failed, quiet_cycles, pub_time, inval_since_pub>>

\* the elements the for loop of line 100 may take next: current_files is a
\* set of strings, iterated in the order of their hashes
NextPaths == todo

\* line 109: previous_files.get(full_path); {} stands for None
Cached(p) == {f \in previous_files : f.full_path = p}

\* the records of lines 115-126, for every path and st_mtime
FileRecords == [p \in Paths |-> [mtime \in 1..MaxMtime |-> NewRecord(p, mtime)]]

\* lines 111-129: the record appended for a path whose stat gave mtime
RecordFor(p, mtime) ==
    IF \E f \in Cached(p) : f.modified = mtime
    THEN CHOOSE f \in Cached(p) : f.modified = mtime
    ELSE FileRecords[p][mtime]

Reuses(p, mtime) == \E f \in Cached(p) : f.modified = mtime

\* line 128: ext == 'zip', with the ext of line 104 as the records hold it
IsArchive(p) == FileRecords[p][1].type = <<"z","i","p">>

\* the record of line 115 once line 128 has opened the archive, or has failed
\* to (the file was removed or became unreadable after the stat of line 105)
ArchiveRecord(p, mtime) ==
    IF fs[p] > 0 THEN FileRecords[p][mtime]
    ELSE [FileRecords[p][mtime] EXCEPT !.zip_contents = NoneValue]

\* lines 100-127: one iteration of the second pass, up to the record; for an
\* archive that is not reused the iteration goes on at line 128
StatPath(p) ==
    /\ pc_s = "l100"
    /\ ~stop_event
    /\ todo' = todo \ {p}
    /\ CASE fs[p] = 0 ->       \* FileNotFoundError / PermissionError: continue
              /\ stat_failed' = stat_failed \cup {p}
              /\ UNCHANGED <<pc_s, new_cache, files_updated, building>>
         [] fs[p] = -1 ->      \* any other exception leaves the try block
              /\ pc_s' = "l144"
              /\ UNCHANGED <<new_cache, files_updated, stat_failed, building>>
         [] OTHER ->
              /\ files_updated' = IF Reuses(p, fs[p]) THEN files_updated
                                  ELSE files_updated \cup {p}
              /\ IF IsArchive(p) /\ ~Reuses(p, fs[p])
                 THEN /\ building' = [path |-> p, mtime |-> fs[p]]
                      /\ pc_s' = "l128"
                      /\ UNCHANGED new_cache
                 ELSE /\ new_cache' = Append(new_cache, RecordFor(p, fs[p]))
                      /\ UNCHANGED <<pc_s, building>>
              /\ UNCHANGED stat_failed
    /\ UNCHANGED <<fsVars, globalVars, previous_files, current_files, walk_dir,
                   watchVars, pc_m, streamVars, histVars>>
    /\ UNCHANGED <<requestVars, missed_event, event_cycles, quiet_cycles, pub_time, inval_since_pub>>

StatFile == \E p \in NextPaths : StatPath(p)

\* line 128 (get_zip_contents, lines 68-73) and the append of line 115
OpenArchive ==
    /\ pc_s = "l128"
    /\ new_cache' = Append(new_cache, ArchiveRecord(building.path, building.mtime))
    /\ building' = [path |-> 0, mtime |-> 0]
    /\ pc_s' = "l100"
    /\ UNCHANGED <<fsVars, globalVars, previous_files, current_files, walk_dir, todo,
                   files_updated, watchVars, pc_m, streamVars, histVars>>
    /\ UNCHANGED <<requestVars, missed_event, event_cycles, stat_failed, quiet_cycles, pub_time, inval_since_pub>>

\* lines 101-102: stop_event is set at the top of an iteration
StatBreak ==
    /\ pc_s = "l100"
    /\ todo # {}
    /\ stop_event
    /\ interrupted' = TRUE
    /\ pc_s' = "l134"
    /\ UNCHANGED <<fsVars, globalVars, previous_files, current_files, walk_dir, todo,
                   building, new_cache, files_updated, watchVars, pc_m, streamVars,
                   walk_failed, inval_in_flight, cycle_outcome, published_partial,
                   pub_version, n_signals, n_expired, msgs_since_publish>>
    /\ UNCHANGED <<requestVars, missed_event, event_cycles, stat_failed, quiet_cycles, pub_time, inval_since_pub>>

\* line 100: the for loop is exhausted
StatEnd ==
    /\ pc_s = "l100"
    /\ todo = {}
    /\ pc_s' = "l134"
    /\ UNCHANGED <<fsVars, globalVars, previous_files, current_files, walk_dir, todo,
                   building, new_cache, files_updated, watchVars, pc_m, streamVars, histVars>>
    /\ UNCHANGED <<requestVars, missed_event, event_cycles, stat_failed, quiet_cycles, pub_time, inval_since_pub>>

\* line 134
SortCache ==
    /\ pc_s = "l134"
    /\ new_cache' = SortDesc(new_cache)
    /\ pc_s' = "l136"
    /\ UNCHANGED <<fsVars, globalVars, previous_files, current_files, walk_dir, todo,
                   building, files_updated, watchVars, pc_m, streamVars, histVars>>
    /\ UNCHANGED <<requestVars, missed_event, event_cycles, stat_failed, quiet_cycles, pub_time, inval_since_pub>>

\* line 136: with cache_lock
LockCache ==
    /\ pc_s = "l136"
    /\ cache_lock = "free"
    /\ cache_lock' = "updater"
    /\ pc_s' = "l137"
    /\ UNCHANGED <<fsVars, file_cache, last_cache_update, app_last_cache_update, stop_event,
                   previous_files, current_files, walk_dir, todo, building, new_cache,
                   files_updated, watchVars, pc_m, streamVars, histVars>>
    /\ UNCHANGED <<requestVars, missed_event, event_cycles, stat_failed, quiet_cycles, pub_time, inval_since_pub>>

\* line 137
PublishCache ==
    /\ pc_s = "l137"
    /\ file_cache' = new_cache
    /\ published_partial' = interrupted
    /\ pc_s' = "l138"
    /\ UNCHANGED <<fsVars, last_cache_update, app_last_cache_update, cache_lock, stop_event,
                   previous_files, current_files, walk_dir, todo, building, new_cache,
                   files_updated, watchVars, pc_m, streamVars, interrupted, walk_failed,
                   inval_in_flight, cycle_outcome, pub_version, n_signals, n_expired,
                   msgs_since_publish>>
    /\ UNCHANGED <<requestVars, missed_event, event_cycles, stat_failed, quiet_cycles, pub_time, inval_since_pub>>

\* line 138
StampCache ==
    /\ pc_s = "l138"
    /\ last_cache_update' = now
    /\ pc_s' = "l139"
    /\ UNCHANGED <<fsVars, file_cache, app_last_cache_update, cache_lock, stop_event,
                   previous_files, current_files, walk_dir, todo, building, new_cache,
                   files_updated, watchVars, pc_m, streamVars, histVars>>
    /\ UNCHANGED <<requestVars, missed_event, event_cycles, stat_failed, quiet_cycles, pub_time, inval_since_pub>>

\* lines 139-142: the version is copied from the global and the lock released
StampApp ==
    /\ pc_s = "l139"
    /\ app_last_cache_update' = last_cache_update
    /\ cache_lock' = "free"
    /\ pc_s' = "l147"
    /\ cycle_outcome' = "published"
    /\ pub_version' = last_cache_update
    /\ pub_time' = now
    /\ inval_since_pub' = FALSE
    /\ msgs_since_publish' = 0
    /\ UNCHANGED <<fsVars, file_cache, last_cache_update, stop_event, previous_files,
                   current_files, walk_dir, todo, building, new_cache, files_updated,
                   watchVars, pc_m, streamVars, interrupted, walk_failed, inval_in_flight,
                   published_partial, n_signals, n_expired>>
    /\ UNCHANGED <<requestVars, missed_event, event_cycles, stat_failed, quiet_cycles>>

\* lines 144-145: except Exception
CycleError ==
    /\ pc_s = "l144"
    /\ cycle_outcome' = "abandoned"
    /\ pc_s' = "l147"
    /\ UNCHANGED <<fsVars, globalVars, previous_files, current_files, walk_dir, todo,
                   building, new_cache, files_updated, watchVars, pc_m, streamVars,
                   interrupted, walk_failed, inval_in_flight, published_partial,
                   pub_version, n_signals, n_expired, msgs_since_publish>>
    /\ UNCHANGED <<requestVars, missed_event, event_cycles, stat_failed, quiet_cycles, pub_time, inval_since_pub>>

\* line 147: time.sleep(1).  now counts whole seconds of time.time(); a sleep
\* lasts a second or more, so the value read at the next test of line 80 is one
\* second later or, as the fractions add up (the fifth test after a publish may
\* already see more than CACHE_EXPIRY) or the thread is held up, up to
\* MaxOversleep seconds more.  The modelled time ends at MaxTime.
Sleep ==
    /\ pc_s = "l147"
    /\ now < MaxTime
    /\ \E d \in 1..(1 + MaxOversleep) : now + d <= MaxTime /\ now' = now + d
    /\ pc_s' = "l79"
    /\ UNCHANGED <<fs, root_ok, fs_left, globalVars, previous_files, current_files,
                   walk_dir, todo, building, new_cache, files_updated, watchVars, pc_m,
                   streamVars, histVars>>
    /\ UNCHANGED <<requestVars, missed_event, event_cycles, stat_failed, quiet_cycles, pub_time, inval_since_pub>>


(***************************************************************************)
(* FileChangeHandler, lines 39-66.  The observer thread delivers events    *)
(* one at a time; every Timer is a thread of its own.                      *)
(***************************************************************************)
\* lines 46-48: the test on_any_event applies to an event
EventAccepted(src_path, is_directory) ==
    /\ ~is_directory
    /\ (IF HasDot(src_path) THEN LastSplit(Lower(src_path)) ELSE <<>>) \in SUPPORTED_EXTENSIONS

\* lines 53-54: cancel() sets the flag that Timer.run tests once, when the
\* interval is over; a timer that has passed the test runs trigger_update all
\* the same
CancelPending(p) ==
    IF debounce_timers[p] = "pending"
    THEN stray_timers' \in {stray_timers, stray_timers + 1}
    ELSE UNCHANGED stray_timers

\* lines 45-58, an event on the file p
OnFileEvent(p) ==
    /\ observer_on
    /\ ev_left > 0
    /\ ev_left' = ev_left - 1
    /\ IF EventAccepted(FullPathStr(p), FALSE)
       THEN /\ app_last_cache_update' = 0
            /\ n_signals' = n_signals + 1
            /\ inval_in_flight' = (inval_in_flight \/ pc_s \in Reconciling)
            /\ inval_since_pub' = TRUE
            \* a pending timer of the path is cancelled; a new one is stored and started
            /\ CancelPending(p)
            /\ debounce_timers' = [debounce_timers EXCEPT ![p] = "pending"]
            /\ UNCHANGED missed_event
       ELSE /\ missed_event' = (missed_event \/ WalkAccepts(p))
            /\ UNCHANGED <<app_last_cache_update, n_signals, inval_in_flight,
                           debounce_timers, stray_timers, inval_since_pub>>
    /\ UNCHANGED <<fsVars, file_cache, last_cache_update, cache_lock, stop_event, schedVars,
                   observer_on, running_timers, pc_m, streamVars, interrupted, walk_failed,
                   cycle_outcome, published_partial, pub_version, n_expired,
                   msgs_since_publish>>
    /\ UNCHANGED <<requestVars, event_cycles, stat_failed, quiet_cycles, pub_time>>

\* lines 45-58, a moved event: src_path is the old name (of file p), dest_path
\* the new name (of file q); only src_path is looked at
OnMovedEvent(p, q) ==
    /\ observer_on
    /\ ev_left > 0
    /\ p # q
    /\ ev_left' = ev_left - 1
    /\ IF EventAccepted(FullPathStr(p), FALSE)
       THEN /\ app_last_cache_update' = 0
            /\ n_signals' = n_signals + 1
            /\ inval_in_flight' = (inval_in_flight \/ pc_s \in Reconciling)
            /\ inval_since_pub' = TRUE
            /\ CancelPending(p)
            /\ debounce_timers' = [debounce_timers EXCEPT ![p] = "pending"]
            /\ UNCHANGED missed_event
       ELSE /\ missed_event' = (missed_event \/ WalkAccepts(p) \/ WalkAccepts(q))
            /\ UNCHANGED <<app_last_cache_update, n_signals, inval_in_flight,
                           debounce_timers, stray_timers, inval_since_pub>>
    /\ UNCHANGED <<fsVars, file_cache, last_cache_update, cache_lock, stop_event, schedVars,
                   observer_on, running_timers, pc_m, streamVars, interrupted, walk_failed,
                   cycle_outcome, published_partial, pub_version, n_expired,
                   msgs_since_publish>>
    /\ UNCHANGED <<requestVars, event_cycles, stat_failed, quiet_cycles, pub_time>>

\* lines 45-46, an event on the directory d
OnDirEvent(d) ==
    /\ observer_on
    /\ ev_left > 0
    /\ ev_left' = ev_left - 1
    /\ IF EventAccepted(DirPath(d), TRUE)
       THEN /\ app_last_cache_update' = 0
            /\ n_signals' = n_signals + 1
            /\ inval_since_pub' = TRUE
       ELSE UNCHANGED <<app_last_cache_update, n_signals, inval_since_pub>>
    /\ UNCHANGED <<fsVars, file_cache, last_cache_update, cache_lock, stop_event, schedVars,
                   observer_on, debounce_timers, running_timers, stray_timers, pc_m, streamVars,
                   interrupted, walk_failed, inval_in_flight, cycle_outcome,
                   published_partial, pub_version, n_expired, msgs_since_publish>>
    /\ UNCHANGED <<requestVars, missed_event, event_cycles, stat_failed, quiet_cycles, pub_time>>

\* lines 60-63: the timer of path p expires and trigger_update starts
TimerExpires(p) ==
    /\ pc_m # "exited"
    /\ debounce_timers[p] = "pending"
    /\ debounce_timers' = [debounce_timers EXCEPT ![p] = "fired"]
    /\ running_timers' = running_timers + 1
    /\ UNCHANGED stray_timers
    /\ app_last_cache_update' = 0
    /\ n_signals' = n_signals + 1
    /\ n_expired' = n_expired + 1
    /\ inval_since_pub' = TRUE
    /\ inval_in_flight' = (inval_in_flight \/ pc_s \in Reconciling)
    /\ UNCHANGED <<fsVars, file_cache, last_cache_update, cache_lock, stop_event, schedVars,
                   observer_on, ev_left, pc_m, streamVars, interrupted, walk_failed,
                   cycle_outcome, published_partial, pub_version, msgs_since_publish>>
    /\ UNCHANGED <<requestVars, missed_event, event_cycles, stat_failed, quiet_cycles, pub_time>>

\* lines 60-63: a timer that cancel() reached too late runs trigger_update;
\* the entry of its path holds the timer that replaced it
StrayTimerExpires ==
    /\ pc_m # "exited"
    /\ stray_timers > 0
    /\ stray_timers' = stray_timers - 1
    /\ running_timers' = running_timers + 1
    /\ app_last_cache_update' = 0
    /\ n_signals' = n_signals + 1
    /\ n_expired' = n_expired + 1
    /\ inval_since_pub' = TRUE
    /\ inval_in_flight' = (inval_in_flight \/ pc_s \in Reconciling)
    /\ UNCHANGED <<fsVars, file_cache, last_cache_update, cache_lock, stop_event, schedVars,
                   observer_on, debounce_timers, ev_left, pc_m, streamVars, interrupted,
                   walk_failed, cycle_outcome, published_partial, pub_version,
                   msgs_since_publish>>
    /\ UNCHANGED <<requestVars, missed_event, event_cycles, stat_failed, quiet_cycles, pub_time>>

\* a trigger that throws the snapshot away
CacheDiscarded(cache) == <<>>

\* lines 60-66 assign the two markers and nothing else
CacheAfterTrigger(cache) == cache

\* lines 65-66: trigger_update resets the global
TriggerUpdateEnd ==
    /\ pc_m # "exited"
    /\ running_timers > 0
    /\ running_timers' = running_timers - 1
    /\ last_cache_update' = 0
    /\ file_cache' = CacheAfterTrigger(file_cache)
    /\ inval_since_pub' = TRUE
    /\ UNCHANGED <<fsVars, app_last_cache_update, cache_lock, stop_event,
                   schedVars, observer_on, debounce_timers, stray_timers, ev_left, pc_m,
                   streamVars, histVars>>
    /\ UNCHANGED <<requestVars, missed_event, event_cycles, stat_failed, quiet_cycles, pub_time>>

(***************************************************************************)
(* The main thread: lines 1048-1064, start_background_threads (149-161)    *)
(* and stop_background_threads (163-178).                                  *)
(***************************************************************************)
\* lines 151-156: the observer is scheduled and started; from here on the
\* observer thread delivers events
StartObserver ==
    /\ pc_m = "l1050"
    /\ observer_on' = TRUE
    /\ pc_m' = "l159"
    /\ UNCHANGED <<fsVars, globalVars, schedVars, debounce_timers, running_timers,
                   stray_timers, ev_left, streamVars, histVars, cycleHist, requestVars>>

\* lines 159-161: the cache thread is created and started; line 1057 follows
StartCacheThread ==
    /\ pc_m = "l159"
    /\ pc_s' = "l77"
    /\ pc_m' = "l1057"
    /\ UNCHANGED <<fsVars, globalVars, previous_files, current_files, walk_dir, todo,
                   building, new_cache, files_updated, watchVars, streamVars, histVars,
                   cycleHist, requestVars>>

start_background_threads == StartObserver \/ StartCacheThread

\* lines 153-156 raise (observer.schedule or observer.start cannot watch
\* HOME_FOLDER): start_background_threads is left before line 159, and line
\* 1061 catches the exception
ObserverStartFails ==
    /\ pc_m = "l1050"
    /\ pc_m' = "l1061"
    /\ UNCHANGED <<fsVars, globalVars, schedVars, watchVars, streamVars, histVars, cycleHist,
                   requestVars>>

\* line 1064 after a failed start: line 167 sets stop_event, and observer.join()
\* of line 172, on a thread that was never started, raises RuntimeError
FailedStartStop ==
    /\ pc_m = "l1061"
    /\ stop_event' = TRUE
    /\ pc_m' = "l172"
    /\ UNCHANGED <<fsVars, file_cache, last_cache_update, app_last_cache_update, cache_lock,
                   schedVars, watchVars, streamVars, histVars, cycleHist, requestVars>>

\* app.run returns (KeyboardInterrupt or an error); line 167 sets stop_event
SetStop ==
    /\ pc_m = "l1057"
    /\ stop_event' = TRUE
    /\ pc_m' = "l170"
    /\ UNCHANGED <<fsVars, file_cache, last_cache_update, app_last_cache_update, cache_lock,
                   schedVars, watchVars, streamVars, histVars>>
    /\ UNCHANGED <<requestVars, missed_event, event_cycles, stat_failed, quiet_cycles, pub_time, inval_since_pub>>

\* lines 170-172: observer.stop(); observer.join()
StopObserver ==
    /\ pc_m = "l170"
    /\ observer_on' = FALSE
    /\ pc_m' = "l175"
    /\ UNCHANGED <<fsVars, globalVars, schedVars, debounce_timers, running_timers, stray_timers, ev_left,
                   streamVars, histVars>>
    /\ UNCHANGED <<requestVars, missed_event, event_cycles, stat_failed, quiet_cycles, pub_time, inval_since_pub>>

\* lines 175-178: cache_thread.join(timeout=2) returns when the thread has
\* ended or the two seconds are over, whichever comes first
JoinCacheThread ==
    /\ pc_m = "l175"
    /\ pc_m' = "l178"
    /\ UNCHANGED <<fsVars, globalVars, schedVars, watchVars, streamVars, histVars>>
    /\ UNCHANGED <<requestVars, missed_event, event_cycles, stat_failed, quiet_cycles, pub_time, inval_since_pub>>

\* the interpreter exits: every other thread is a daemon (the cache thread,
\* the request threads, and the Timer threads, which inherit the flag from
\* the observer thread that creates them) and ends where it stands
ProcessExit ==
    /\ pc_m \in {"l178", "l172"}
    /\ pc_m' = "exited"
    /\ pc_s' = IF pc_s \in {"done", "unstarted"} THEN pc_s ELSE "killed"
    /\ pc_u' = "closed"
    /\ pc_r' = IF pc_r = "idle" THEN "idle" ELSE "killed"
    /\ cache_lock' = "free"
    /\ UNCHANGED <<fsVars, file_cache, last_cache_update, app_last_cache_update, stop_event,
                   previous_files, current_files, walk_dir, todo, building, new_cache,
                   files_updated, watchVars, last_version, last_file_count,
                   current_file_count, last_sent, clients_left, histVars, cycleHist>>
    /\ UNCHANGED <<query, filtered_files, page_view, queries_left, filename, served>>

(***************************************************************************)
(* One client of /updates: event_stream, lines 1025-1035.                  *)
(***************************************************************************)
Abs(x) == IF x < 0 THEN -x ELSE x

\* line 1026, at the first next() of the generator
StreamOpen ==
    /\ pc_m = "l1057"
    /\ pc_u = "closed"
    /\ clients_left > 0
    /\ clients_left' = clients_left - 1
    /\ last_version' = app_last_cache_update
    /\ last_sent' = -1
    /\ pc_u' = "l1027"
    /\ UNCHANGED <<fsVars, globalVars, schedVars, watchVars, pc_m, last_file_count,
                   current_file_count, histVars>>
    /\ UNCHANGED <<requestVars, missed_event, event_cycles, stat_failed, quiet_cycles, pub_time, inval_since_pub>>

\* line 1027
StreamOpenCount ==
    /\ pc_u = "l1027"
    /\ last_file_count' = Len(file_cache)
    /\ pc_u' = "l1030"
    /\ UNCHANGED <<fsVars, globalVars, schedVars, watchVars, pc_m, last_version,
                   current_file_count, last_sent, clients_left, histVars>>
    /\ UNCHANGED <<requestVars, missed_event, event_cycles, stat_failed, quiet_cycles, pub_time, inval_since_pub>>

\* line 1030 (after the sleep of line 1035)
StreamReadCount ==
    /\ pc_u = "l1030"
    /\ current_file_count' = Len(file_cache)
    /\ pc_u' = "l1031"
    /\ UNCHANGED <<fsVars, globalVars, schedVars, watchVars, pc_m, last_version,
                   last_file_count, last_sent, clients_left, histVars>>
    /\ UNCHANGED <<requestVars, missed_event, event_cycles, stat_failed, quiet_cycles, pub_time, inval_since_pub>>

\* line 1031
StreamTest ==
    /\ pc_u = "l1031"
    /\ pc_u' = IF \/ app_last_cache_update > last_version
                  \/ Abs(current_file_count - last_file_count) > FileCountDelta
               THEN "l1032" ELSE "l1030"
    /\ UNCHANGED <<fsVars, globalVars, schedVars, watchVars, pc_m, last_version,
                   last_file_count, current_file_count, last_sent, clients_left, histVars>>
    /\ UNCHANGED <<requestVars, missed_event, event_cycles, stat_failed, quiet_cycles, pub_time, inval_since_pub>>

\* lines 1032-1034: the version is read a second time and yielded
StreamYield ==
    /\ pc_u = "l1032"
    /\ last_version' = app_last_cache_update
    /\ last_file_count' = current_file_count
    /\ last_sent' = app_last_cache_update
    /\ msgs_since_publish' = IF msgs_since_publish < MsgCap THEN msgs_since_publish + 1
                             ELSE MsgCap
    /\ pc_u' = "l1030"
    /\ UNCHANGED <<fsVars, globalVars, schedVars, watchVars, pc_m, current_file_count,
                   clients_left, interrupted, walk_failed, inval_in_flight, cycle_outcome,
                   published_partial, pub_version, n_signals, n_expired>>
    /\ UNCHANGED <<requestVars, missed_event, event_cycles, stat_failed, quiet_cycles, pub_time, inval_since_pub>>

(***************************************************************************)
(* The requests: has_data (lines 1019-1021) and index (lines 180-253).     *)
(***************************************************************************)
\* line 1021: the answer of /has_data
has_data == Len(file_cache) > 0

\* line 189: index answers with the page 'Building initial file index...'
ShowsBuildingPage == file_cache = <<>>

\* str.strip()
RECURSIVE LStrip(_)
LStrip(s) == IF s # <<>> /\ Head(s) = " " THEN LStrip(Tail(s)) ELSE s

RECURSIVE RStrip(_)
RStrip(s) == IF s # <<>> /\ s[Len(s)] = " " THEN RStrip(SubSeq(s, 1, Len(s) - 1)) ELSE s

Strip(s) == RStrip(LStrip(s))

\* str.split(): the runs of non-blank characters, in order
RECURSIVE SplitFrom(_, _, _)
SplitFrom(s, i, word) ==
    IF i > Len(s) THEN (IF word = <<>> THEN <<>> ELSE <<word>>)
    ELSE IF s[i] = " "
         THEN (IF word = <<>> THEN <<>> ELSE <<word>>) \o SplitFrom(s, i + 1, <<>>)
         ELSE SplitFrom(s, i + 1, Append(word, s[i]))

Split(s) == SplitFrom(s, 1, <<>>)

\* t in s, for strings
Contains(s, t) == \E k \in 0..(Len(s) - Len(t)) : SubSeq(s, k + 1, k + Len(t)) = t

\* line 225: datetime.fromtimestamp(modified).date(), as a day number
DateOf(modified) == modified \div DayLength

All == <<"a","l","l">>
NoDate == -1

\* a search that asks for every term
SearchMatchAll(file, search_terms) ==
    \A i \in 1..Len(search_terms) :
        \/ Contains(Lower(file.name), search_terms[i])
        \/ Contains(Lower(file.folder), search_terms[i])

\* lines 237-241: any(term in name.lower() or term in folder.lower() ...)
SearchMatch(file, search_terms) ==
    \E i \in 1..Len(search_terms) :
        \/ Contains(Lower(file.name), search_terms[i])
        \/ Contains(Lower(file.folder), search_terms[i])

\* lines 220-243: no continue is taken for the record
Keeps(file, args) ==
    LET search_query == Lower(Strip(args.search))
        file_date == DateOf(file.modified)
    IN  IF args.type # All /\ file.type # args.type THEN FALSE
        ELSE IF args.date_from # NoDate /\ file_date < args.date_from THEN FALSE
        ELSE IF args.date_to # NoDate /\ file_date > args.date_to THEN FALSE
        ELSE IF search_query # <<>> /\ ~SearchMatch(file, Split(search_query)) THEN FALSE
        ELSE TRUE

\* lines 217-245: the loop over file_cache
RECURSIVE index_filter(_, _)
index_filter(cache, args) ==
    IF cache = <<>> THEN <<>>
    ELSE (IF Keeps(Head(cache), args) THEN <<Head(cache)>> ELSE <<>>)
         \o index_filter(Tail(cache), args)

\* a request that leaves nothing in the list it walked through
CacheDrained(cache) == <<>>

\* lines 217-253 bind the global file_cache nowhere and call no method that
\* changes the list or a record: the cache after the request is the cache before
CacheAfterIndex(cache) == cache

Min(a, b) == IF a < b THEN a ELSE b
Max(a, b) == IF a > b THEN a ELSE b

\* a division that rounds down
FloorDiv(a, b) == a \div b

\* math.ceil(a / b), b positive
Ceil(a, b) == -((-a) \div b)

\* s[a:b] of a Python list
Slice(s, a, b) ==
    LET from == IF a < 0 THEN Max(Len(s) + a, 0) ELSE Min(a, Len(s))
        to == IF b < 0 THEN Max(Len(s) + b, 0) ELSE Min(b, Len(s))
    IN  SubSeq(s, from + 1, to)

\* lines 247-253
Paginate(files, requested) ==
    LET total_files == Len(files)
        total_pages == IF FILES_PER_PAGE > 0 THEN Ceil(total_files, FILES_PER_PAGE) ELSE 1
        page == Max(1, Min(requested, total_pages))
        start_idx == (page - 1) * FILES_PER_PAGE
        end_idx == start_idx + FILES_PER_PAGE
    IN  [ kind |-> "page",
          page |-> page,
          total_files |-> total_files,
          total_pages |-> total_pages,
          start_idx |-> start_idx,
          paginated_files |-> Slice(files, start_idx, end_idx),
          showing_end |-> IF end_idx <= total_files THEN end_idx ELSE total_files ]

\* lines 182-215: the arguments are read; an empty file_cache ends the request
IndexRequest(args) ==
    /\ pc_m = "l1057"
    /\ pc_r \in {"idle", "done"}
    /\ queries_left > 0
    /\ queries_left' = queries_left - 1
    /\ query' = args
    /\ filtered_files' = <<>>
    /\ IF ShowsBuildingPage
       THEN /\ page_view' = [kind |-> "building"]
            /\ pc_r' = "done"
       ELSE /\ page_view' = NoView
            /\ pc_r' = "l218"
    /\ UNCHANGED <<fsVars, globalVars, schedVars, watchVars, pc_m, streamVars, histVars,
                   cycleHist, filename, served>>

\* line 218: with cache_lock
IndexLock ==
    /\ pc_r = "l218"
    /\ cache_lock = "free"
    /\ cache_lock' = "index"
    /\ pc_r' = "l219"
    /\ UNCHANGED <<fsVars, file_cache, last_cache_update, app_last_cache_update, stop_event,
                   schedVars, watchVars, pc_m, streamVars, histVars, cycleHist, query,
                   filtered_files, page_view, queries_left, filename, served>>

\* lines 219-245: the loop, run while the lock is held, and the release
IndexFilter ==
    /\ pc_r = "l219"
    /\ filtered_files' = index_filter(file_cache, query)
    /\ file_cache' = CacheAfterIndex(file_cache)
    /\ cache_lock' = "free"
    /\ pc_r' = "l247"
    /\ UNCHANGED <<fsVars, last_cache_update, app_last_cache_update, stop_event,
                   schedVars, watchVars, pc_m, streamVars, histVars, cycleHist, query,
                   page_view, queries_left, filename, served>>

\* lines 247-253 and the rendering
IndexPaginate ==
    /\ pc_r = "l247"
    /\ page_view' = Paginate(filtered_files, query.page)
    /\ pc_r' = "done"
    /\ UNCHANGED <<fsVars, globalVars, schedVars, watchVars, pc_m, streamVars, histVars,
                   cycleHist, query, filtered_files, queries_left, filename, served>>

(***************************************************************************)
(* serve_file (lines 1039-1041): send_from_directory(HOME_FOLDER, filename) *)
(* joins the name to the directory with werkzeug's safe_join and answers   *)
(* NotFound when safe_join refuses the name or the result is not a file.   *)
(* A name is the list of its segments.                                     *)
(***************************************************************************)
Up == <<".", ".">>
Here == <<".">>

\* posixpath.normpath of a relative name
RECURSIVE NormFrom(_, _)
NormFrom(segs, comps) ==
    IF segs = <<>> THEN comps
    ELSE IF Head(segs) = Here THEN NormFrom(Tail(segs), comps)
    ELSE IF Head(segs) # Up \/ comps = <<>> \/ comps[Len(comps)] = Up
         THEN NormFrom(Tail(segs), Append(comps, Head(segs)))
         ELSE NormFrom(Tail(segs), SubSeq(comps, 1, Len(comps) - 1))

normpath(segs) == NormFrom(segs, <<>>)

\* safe_join refuses a normalised name that is '..' or starts with '../'
Refused(segs) == normpath(segs) # <<>> /\ normpath(segs)[1] = Up

\* the segments of the path of file p below HOME_FOLDER
RelSegs(p) == [i \in 1..(DirOf(p) - 1) |-> <<"s">>] \o <<NameOf(p)>>

\* os.path.isfile of HOME_FOLDER joined with the normalised name
IsFile(comps) == \E p \in DOMAIN fs : fs[p] > 0 /\ RelSegs(p) = comps

\* the file is opened from the path made of directory and name as they are
send_joined(name) == [status |-> 200, opens |-> TRUE, path |-> name]

\* line 1041
send_from_directory(name) ==
    IF Refused(name) THEN [status |-> 404, opens |-> FALSE, path |-> <<>>]
    ELSE IF ~IsFile(normpath(name)) THEN [status |-> 404, opens |-> FALSE, path |-> <<>>]
    ELSE [status |-> 200, opens |-> TRUE, path |-> normpath(name)]

\* lines 1039-1041
ServeFile ==
    /\ pc_m = "l1057"
    /\ filename # <<>>
    /\ served = NotServed
    /\ served' = send_from_directory(filename)
    /\ UNCHANGED <<fsVars, globalVars, schedVars, watchVars, pc_m, streamVars, histVars,
                   cycleHist, pc_r, query, filtered_files, page_view, queries_left,
                   filename>>

\* the steps of the updater while the tree is readable and nothing stops it
SchedulerSteady ==
    \/ ThreadEntry \/ LoopTest \/ CycleStart \/ CycleSkip \/ WalkDir
    \/ StatFile \/ OpenArchive \/ StatEnd \/ SortCache
    \/ LockCache \/ PublishCache \/ StampCache \/ StampApp \/ Sleep

\* its steps once stop_event is set
SchedulerStops == WalkBreak \/ StatBreak

\* its steps on an unreadable root or a failing stat
SchedulerErrors == WalkUnreadable \/ CycleError

Scheduler == SchedulerSteady \/ SchedulerStops \/ SchedulerErrors

Watcher ==
    \/ \E p \in 1..MaxEventPath : OnFileEvent(p)
    \/ \E p, q \in 1..MaxEventPath : OnMovedEvent(p, q)
    \/ \E d \in Dirs : OnDirEvent(d)
    \/ \E p \in Paths : TimerExpires(p)
    \/ StrayTimerExpires
    \/ TriggerUpdateEnd

Main ==
    \/ start_background_threads \/ ObserverStartFails \/ FailedStartStop
    \/ SetStop \/ StopObserver \/ JoinCacheThread \/ ProcessExit

Stream == StreamOpen \/ StreamOpenCount \/ StreamReadCount \/ StreamTest \/ StreamYield

\* the arguments of the requests to /: file types, days, search strings
QueryTypes == { All, <<"p","d","f">>, <<"z","i","p">>, <<"P","D","F">> }
QueryDays == {NoDate} \cup (0..(MaxMtime \div DayLength))
Searches ==
    { <<>>,
      <<"z","i","p">>,
      <<" ","X"," "," ","z","i","p"," ">>,
      <<"S">>,
      <<"q">> }
FilterQueries ==
    [search : Searches, type : QueryTypes, page : {1}, date_from : QueryDays,
     date_to : QueryDays]
PageQueries ==
    [search : {<<>>, <<"q">>}, type : {All}, page : (-BelowFirst)..MaxPage, date_from : {NoDate},
     date_to : {NoDate}]

Index ==
    \/ \E args \in FilterQueries \cup PageQueries : IndexRequest(args)
    \/ IndexLock \/ IndexFilter \/ IndexPaginate

Filesystem ==
    \/ \E p \in 1..MaxTouched : FsWrite(p)
    \/ \E p \in 1..MaxTouched : FsDelete(p)
    \/ \E p \in 1..MaxTouched : FsFault(p)
    \/ FsRootToggle

Next == Scheduler \/ Watcher \/ Main \/ Stream \/ Filesystem \/ Index \/ ServeFile

(***************************************************************************)
(* Specifications.  All of them run the same threads; they differ in what  *)
(* the environment does: how often the filesystem changes, how many events *)
(* the observer delivers and whether a client opens /updates.              *)
(***************************************************************************)
\* the updater and the filesystem
InitCache == InitWith(MaxFsChanges, 0, 0, StartTime)
NextCache == Scheduler \/ Main \/ Filesystem
SpecCache == InitCache /\ [][NextCache]_vars

\* the updater and the watcher, with a tree that stays as it is
InitWatch == InitWith(0, MaxEvents, 0, MaxTime - ShortRun)
NextWatch == SchedulerSteady \/ SchedulerStops \/ Main \/ Watcher
SpecWatch == InitWatch /\ [][NextWatch]_vars

\* the updater and the watcher while app.run is serving: no shutdown
NextMark == start_background_threads \/ SchedulerSteady \/ Watcher
SpecMark == InitWatch /\ [][NextMark]_vars

\* the watcher alone, under a burst of events
InitDebounce == InitWith(0, BurstLen, 0, StartTime)
NextDebounce == start_background_threads \/ Watcher
SpecDebounce == InitDebounce /\ [][NextDebounce]_vars

\* the updater, the watcher and one client of /updates, with a tree that stays
\* readable and no shutdown
InitStream == InitWith(0, StreamEvents, 1, MaxTime - ShortRun)
NextStream == start_background_threads \/ SchedulerSteady \/ Watcher \/ Stream
SpecStream == InitStream /\ [][NextStream]_vars

\* the updater and one client of /updates over a tree of more than
\* FileCountDelta supported files that stays as it is: no watcher, no shutdown
InitCount == InitBoot({MixedTree}, 0, 0, 1, 0, MaxTime - ShortRun)
NextCount == start_background_threads \/ SchedulerSteady \/ Stream
SpecCount == InitCount /\ [][NextCount]_vars

\* the updater and one request to /, with a tree that stays as it is
InitQuery == InitBoot(InitialTrees, 0, 0, 0, 1, StartTime)
NextQuery ==
    \/ start_background_threads \/ SchedulerSteady
    \/ \E args \in FilterQueries : IndexRequest(args)
    \/ IndexLock \/ IndexFilter \/ IndexPaginate
SpecQuery == InitQuery /\ [][NextQuery]_vars

\* one request to / for a page of a snapshot of up to MaxMatches records
InitPage ==
    \E n \in 0..MaxMatches :
        /\ InitServing(ServingTree(n), ServingCache(n))
        /\ IdleIndex
        /\ queries_left = 1
        /\ NoFileRequest
NextPage ==
    \/ \E args \in PageQueries : IndexRequest(args)
    \/ IndexLock \/ IndexFilter \/ IndexPaginate
SpecPage == InitPage /\ [][NextPage]_vars

\* one request to /file/<path:filename>
Segments == { Up, Here, <<"s">>, <<"e","t","c">>, <<"p","a","s","s","w","d">>, NameOf(1) }
FileNames == UNION { [1..n -> Segments] : n \in 1..MaxSegments }
InitServe ==
    /\ InitServing(ServingTree(Cardinality({p \in Paths : WalkAccepts(p)})),
                   ServingCache(Cardinality({p \in Paths : WalkAccepts(p)})))
    /\ IdleIndex
    /\ queries_left = 0
    /\ filename \in FileNames
    /\ served = NotServed
NextServe == ServeFile
SpecServe == InitServe /\ [][NextServe]_vars

\* everything
\* the last moment of the modelled time at which a change still leaves the
\* updater a full freshness window
FreshBy == MaxTime - CACHE_EXPIRY - 1

\* the updater under a fair scheduler, with a tree that other programs change
\* (while the modelled time leaves room for the rebuild) and that stays
\* readable, an observer that delivers no event for these changes, and no
\* shutdown.  The main thread gets to line 159 and the cache thread, once
\* started, keeps being scheduled.
FsChange == now <= FreshBy /\ \E p \in 1..MaxTouched : FsWrite(p) \/ FsDelete(p)
InitFresh == InitWith(MaxFsChanges, 0, 0, StartTime)
NextFresh == start_background_threads \/ SchedulerSteady \/ FsChange
SpecFresh ==
    /\ InitFresh /\ [][NextFresh]_vars
    /\ WF_vars(start_background_threads) /\ WF_vars(SchedulerSteady)

\* the updater, the watcher and one client of /updates under a fair scheduler,
\* with one file on which os.stat may start to fail and no shutdown.  The
\* observer delivers its events while the modelled time still leaves the
\* updater a tick; the client decides when it opens the stream, and the
\* generator, once opened, keeps being polled.
EarlyWatcher == now < MaxTime /\ Watcher
StreamLoop == StreamOpenCount \/ StreamReadCount \/ StreamTest \/ StreamYield
InitNotify == InitWith(1, NotifyEvents, 1, MaxTime - ShortRun)
NextNotify ==
    \/ start_background_threads \/ SchedulerSteady \/ CycleError
    \/ EarlyWatcher \/ Stream
    \/ \E p \in 1..MaxTouched : FsFault(p)
SpecNotify ==
    /\ InitNotify /\ [][NextNotify]_vars
    /\ WF_vars(start_background_threads)
    /\ WF_vars(SchedulerSteady \/ CycleError)
    /\ WF_vars(StreamLoop)

\* the updater, the filesystem and the shutdown, with a cache thread that
\* keeps being scheduled once it has been started
SpecStop == InitCache /\ [][NextCache]_vars /\ WF_vars(Scheduler)

Init == InitBoot(InitialTrees, MaxFsChanges, MaxEvents, 1, 1, MaxTime - ShortRun)
Spec == Init /\ [][Next]_vars


(***************************************************************************)
(* Properties.                                                             *)
(***************************************************************************)
\* no Timer thread is waiting or in trigger_update, the replaced ones that
\* cancel() reached too late included
NoTimerActive ==
    /\ \A p \in Paths : debounce_timers[p] # "pending"
    /\ running_timers = 0
    /\ stray_timers = 0

\* C1 (reuse invariant): when a reconciliation is about to publish, every file
\* whose modification time equals the one recorded for it in the previously
\* published snapshot was carried over by reusing that record, i.e. it is not
\* among the files for which a fresh record was derived (and get_zip_contents
\* called) in this cycle.
C1_ReuseUnchanged ==
    pc_s = "l136" =>
        \A i \in 1..Len(new_cache) :
            (\E j \in 1..Len(file_cache) :
                /\ file_cache[j].full_path = new_cache[i].full_path
                /\ file_cache[j].modified = new_cache[i].modified)
            => new_cache[i].full_path \notin files_updated

\* C2 (sticky invalidation): when a reconciliation has just published, no
\* shutdown is under way and the watcher invalidated while the reconciliation
\* was in flight, the invalidation is still
\* pending: a staleness marker is zero, or a timer that will zero it is still
\* pending or running.
C2_InvalidationSurvivesPublish ==
    (pc_s = "l147" /\ cycle_outcome = "published" /\ inval_in_flight /\ ~stop_event)
        => \/ app_last_cache_update = 0
           \/ last_cache_update = 0
           \/ ~NoTimerActive

\* C3 (debounce collapse): once a burst of events on the single path 1 has been
\* delivered and its debounce timer has expired, exactly one invalidation signal
\* (one write of the staleness marker) has been issued.
C3_OneSignalPerBurst ==
    ( /\ ev_left = 0
      /\ n_expired = 1
      /\ NoTimerActive
      /\ \A p \in Paths : p # 1 => debounce_timers[p] = "none" )
        => n_signals = 1

\* C4 (consumer-side version ordering): the values one /updates stream yields
\* never decrease.
C4_StreamNeverGoesBack ==
    [][(last_sent >= 0 /\ last_sent' # last_sent) => last_sent' >= last_sent]_vars

\* C5 (version monotonicity): the version a publish stores in
\* app.last_cache_update is strictly greater than the version stored by the
\* publish before it.
C5_PublishedVersionGrows ==
    [][(pc_s = "l139" /\ pc_s' = "l147" /\ pub_version >= 0)
          => app_last_cache_update' > pub_version]_vars

\* C6 (one notification per version change): between two consecutive publishes
\* one /updates stream yields at most one message.
C6_OneMessagePerPublish == msgs_since_publish <= 1

\* C7 (no partial snapshot): file_cache never holds the result of a
\* reconciliation that left the walk or the second pass before the end.
C7_NoPartialSnapshot == ~published_partial

\* C8 (shutdown does not interrupt): a reconciliation that has started is never
\* cut short by the stop signal.
C8_CycleRunsToCompletion == pc_s \in Reconciling => ~interrupted

\* C9 (shutdown releases timers): once stop_background_threads has returned
\* (line 178, before the interpreter exits) no debounce timer is pending and no
\* trigger_update is running.
C9_NoTimerAfterStop == pc_m = "l178" => NoTimerActive

\* C10 (cycle errors keep the last good snapshot): in a cycle whose walk failed
\* because HOME_FOLDER could not be listed, file_cache is not replaced.
C10_FailedWalkKeepsSnapshot == [][walk_failed => file_cache' = file_cache]_vars

\* C11 (watcher failure does not stop indexing): once start_background_threads
\* is over, also when it was left because the observer could not be started,
\* the cache updater thread has been started.
C11_UpdaterStartsWithoutWatcher ==
    pc_m \notin {"l1050", "l159"} => pc_s # "unstarted"

\* C12 (hasData): once a reconciliation has published, /has_data answers true
\* and index no longer shows the 'still building' page, whether the published
\* snapshot holds records or is confirmed empty.
C12_HasDataAfterPublish == pub_time >= 0 => (has_data /\ ~ShowsBuildingPage)

\* C13 (deletion invariant): the snapshot a reconciliation publishes holds
\* records only for paths its walk listed and whose stat did not fail with
\* FileNotFoundError or PermissionError, whatever the previous snapshot held.
C13_DeletedPathsLeaveSnapshot ==
    /\ pc_s = "l137" =>
          \A i \in 1..Len(new_cache) :
              new_cache[i].full_path \in current_files \ stat_failed
    /\ pc_s = "l138" =>
          \A i \in 1..Len(file_cache) :
              file_cache[i].full_path \in current_files \ stat_failed

\* a reconciliation is about to replace a snapshot holding a path that its walk
\* did not list or whose stat failed
C13_Witness ==
    /\ pc_s = "l137"
    /\ ~interrupted
    /\ root_ok
    /\ \E j \in 1..Len(file_cache) :
          file_cache[j].full_path \notin current_files \ stat_failed

\* C14 (idempotent reconciliation): when the tree has not changed since the
\* start of the reconciliation that published the current snapshot, the next
\* reconciliation publishes the same set of records.
C14_SameTreeSameRecords ==
    (pc_s = "l137" /\ quiet_cycles = 2 /\ cycle_outcome = "published")
        => Range(new_cache) = Range(file_cache)

\* C15 (serialised reconciliation): the one reconciliation in flight compares
\* the files it stats (lines 109-111) against the records of the snapshot the
\* preceding successful reconciliation published.
C15_ComparesWithLastSnapshot ==
    (pc_s = "l100" /\ ~interrupted) => previous_files = Range(file_cache)

\* the words of s: its maximal runs of non-blank characters
Words(s) ==
    { SubSeq(s, x[1], x[2]) :
        x \in { y \in (1..Len(s)) \X (1..Len(s)) :
                  /\ y[1] <= y[2]
                  /\ \A k \in y[1]..y[2] : s[k] # " "
                  /\ (y[1] = 1 \/ s[y[1] - 1] = " ")
                  /\ (y[2] = Len(s) \/ s[y[2] + 1] = " ") } }

\* t occurs in s when the case of the letters is ignored
OccursIn(t, s) ==
    \E k \in 0..(Len(s) - Len(t)) :
        \A i \in 1..Len(t) : LowerChar(t[i]) = LowerChar(s[k + i])

\* the record satisfies every filter of the request
Satisfies(rec, args) ==
    /\ args.type # All => rec.type = args.type
    /\ args.date_from # NoDate => DateOf(rec.modified) >= args.date_from
    /\ args.date_to # NoDate => DateOf(rec.modified) <= args.date_to
    /\ Words(args.search) # {} =>
          \E t \in Words(args.search) : OccursIn(t, rec.name) \/ OccursIn(t, rec.folder)

Answer(cache, args) ==
    LET Test(rec) == Satisfies(rec, args)
    IN  SelectSeq(cache, Test)

\* C16 (query filtering): the list the loop of index builds is the list of the
\* records of the snapshot that satisfy every filter of the request (type
\* unless 'all', first and last day when given, some term of the search a
\* case-insensitive substring of name or folder), in the order of the snapshot.
C16_FilterIsConjunction ==
    [][(pc_r = "l219" /\ pc_r' = "l247") => filtered_files' = Answer(file_cache, query)]_vars

\* a request with a type, a first day and a search of two terms that kept some
\* records of the snapshot and dropped others
C16_Witness ==
    /\ pc_r = "l247"
    /\ query.type # All
    /\ query.date_from # NoDate
    /\ Cardinality(Words(query.search)) = 2
    /\ filtered_files # <<>>
    /\ Len(filtered_files) < Len(file_cache)

\* the number of pages that n records fill
PagesFor(n) ==
    CHOOSE k \in 0..n : k * FILES_PER_PAGE >= n /\ (k = 0 \/ (k - 1) * FILES_PER_PAGE < n)

\* C17 (pagination clamp): the page shown is the requested page clamped into
\* 1..PagesFor(matches), page 1 when nothing matches; the records shown are
\* those at positions (page-1)*FILES_PER_PAGE+1 .. min(page*FILES_PER_PAGE,
\* matches) of the filtered list, and the total is the number of matches.
C17_PageClamp ==
    (pc_r = "done" /\ page_view.kind = "page") =>
        LET n == Len(filtered_files)
            last == IF PagesFor(n) < 1 THEN 1 ELSE PagesFor(n)
            shown == IF query.page < 1 THEN 1
                     ELSE IF query.page > last THEN last ELSE query.page
            first == (shown - 1) * FILES_PER_PAGE
            count == IF n - first > FILES_PER_PAGE THEN FILES_PER_PAGE ELSE n - first
        IN  /\ page_view.page = shown
            /\ page_view.total_files = n
            /\ page_view.paginated_files = [i \in 1..count |-> filtered_files[first + i]]

\* 25 matches, page 3 requested: page 2 is shown, with the records 21..25
C17_Witness ==
    /\ pc_r = "done"
    /\ page_view.kind = "page"
    /\ Len(filtered_files) = 25
    /\ query.page = 3
    /\ page_view.page = 2
    /\ Len(page_view.paginated_files) = 5
    /\ page_view.paginated_files[1] = filtered_files[21]

\* C18 (query is a pure read): no step of index changes file_cache (the list
\* or a record in it), last_cache_update or app.last_cache_update, also while a
\* reconciliation is in flight.
C18_IndexOnlyReads ==
    [][pc_r' # pc_r =>
          /\ file_cache' = file_cache
          /\ last_cache_update' = last_cache_update
          /\ app_last_cache_update' = app_last_cache_update]_vars

\* index has filtered a snapshot while the next reconciliation was in flight
C18_Witness ==
    /\ pc_r = "l247"
    /\ filtered_files # <<>>
    /\ pc_s \in Reconciling
    /\ pub_time >= 0

\* the name leaves HOME_FOLDER: after some segment it has gone up more often
\* than down
LeavesRoot(segs) ==
    \E n \in 1..Len(segs) :
        Cardinality({i \in 1..n : segs[i] = Up})
            > Cardinality({i \in 1..n : segs[i] # Up /\ segs[i] # Here})

\* C19 (path-escape rejection): a request for a name that leaves HOME_FOLDER,
\* such as ../../etc/passwd, is answered with a rejection and opens no file;
\* a file that is opened lies on a path below HOME_FOLDER.
C19_NoReadOutsideRoot ==
    served # NotServed =>
        /\ LeavesRoot(filename) => (served.status = 404 /\ ~served.opens)
        /\ served.opens => \A i \in 1..Len(served.path) : served.path[i] \notin {Up, Here}

\* ../../etc/passwd was asked for and refused
C19_Witness ==
    /\ filename = <<Up, Up, <<"e","t","c">>, <<"p","a","s","s","w","d">> >>
    /\ served.status = 404
    /\ ~served.opens

\* C20 (scheduler trigger and reset): at a tick a reconciliation starts exactly
\* when no publish has happened yet, or more than CACHE_EXPIRY seconds have
\* passed since the last publish, or the watcher has invalidated since the last
\* publish; and after a publish, until the watcher invalidates again, the
\* marker is cleared and the freshness timer counts from that publish.
C20_TriggerAndReset ==
    /\ pc_s = "l80" =>
          (IsStale <=> (pub_time < 0 \/ now - pub_time > CACHE_EXPIRY \/ inval_since_pub))
    /\ (pc_s \in {"l147", "l79", "l80"} /\ pub_time >= 0 /\ ~inval_since_pub) =>
          (app_last_cache_update # 0 /\ last_cache_update = pub_time)

\* C21 (transient per-entry errors never abort a cycle): a failure of os.stat
\* or of the construction of the record for one path never takes the cycle to
\* the handler of line 144, which abandons it without publishing.
C21_EntryErrorKeepsCycle == pc_s # "l144"

\* C22 (debounce state lifecycle): debounce_timers holds entries of pending
\* timers only; the entry of a timer that has fired is gone.
C22_OnlyPendingEntries == \A p \in Paths : debounce_timers[p] \in {"none", "pending"}

\* C23 (readers and the writer never block each other): the updater never
\* waits at line 136 for cache_lock while index holds it for its loop over the
\* snapshot.
C23_PublishNeverWaitsForQuery == ~(pc_s = "l136" /\ cache_lock = "index")

\* C24 (snapshot record invariant): in file_cache no two records have the same
\* full_path, and the type of every record is in SUPPORTED_EXTENSIONS.
C24_UniquePathsSupportedTypes ==
    /\ \A i, j \in 1..Len(file_cache) :
          file_cache[i].full_path = file_cache[j].full_path => i = j
    /\ \A i \in 1..Len(file_cache) : file_cache[i].type \in SUPPORTED_EXTENSIONS

\* a published snapshot of several records, one of a file whose extension is
\* spelled in upper case
C24_Witness ==
    /\ pub_time >= 0
    /\ Len(file_cache) > 2
    /\ \E i \in 1..Len(file_cache) :
          LastSplit(file_cache[i].name) \notin SUPPORTED_EXTENSIONS

\* C25 (snapshot order invariant): file_cache is sorted by modified, newest
\* first: of two adjacent records the earlier has modified >= the later.
C25_NewestFirst ==
    \A i \in 1..(Len(file_cache) - 1) :
        file_cache[i].modified >= file_cache[i + 1].modified

\* the second publish of a run holds records of different ages
C25_Witness ==
    /\ pub_time > StartTime
    /\ Len(file_cache) > 2
    /\ file_cache[1].modified > file_cache[Len(file_cache)].modified

\* C28 (archive preview is best-effort): zip_contents is None unless the record
\* is of type zip; a preview holds at most PreviewLimit names, the first of the
\* archive in their order; and a zip file whose archive cannot be read still
\* has its record, with zip_contents None, when the second pass is over.
C28_PreviewBestEffort ==
    /\ \A i \in 1..Len(file_cache) :
          LET rec == file_cache[i] IN
            ~rec.zip_contents.is_none =>
                /\ rec.type = <<"z","i","p">>
                /\ Len(rec.zip_contents.names) <= PreviewLimit
                /\ \A k \in 1..Len(rec.zip_contents.names) :
                      rec.zip_contents.names[k] = ArchiveNames(rec.full_path)[k]
    /\ (pc_s = "l134" /\ ~interrupted) =>
          \A p \in current_files \ stat_failed :
              ArchiveCorrupt(p) =>
                  \E i \in 1..Len(new_cache) :
                      new_cache[i].full_path = p /\ new_cache[i].zip_contents.is_none

\* a published snapshot with an unreadable archive (no preview) and an archive
\* of more than PreviewLimit entries (a preview of PreviewLimit names)
C28_Witness ==
    /\ pub_time >= 0
    /\ \E i \in 1..Len(file_cache) :
          /\ file_cache[i].type = <<"z","i","p">>
          /\ ArchiveCorrupt(file_cache[i].full_path)
          /\ file_cache[i].zip_contents.is_none
    /\ \E i \in 1..Len(file_cache) :
          /\ Len(ArchiveNames(file_cache[i].full_path)) > PreviewLimit
          /\ Len(file_cache[i].zip_contents.names) = PreviewLimit

\* C26 (the watcher only marks staleness): a step of the watcher (an event
\* handled, a timer expiring, trigger_update ending) changes neither file_cache
\* nor the tree, takes no lock and moves no variable of the updater: it runs no
\* reconciliation itself.
C26_WatcherOnlyMarks ==
    [][(\/ ev_left' # ev_left
        \/ debounce_timers' # debounce_timers
        \/ running_timers' # running_timers)
          => /\ file_cache' = file_cache
             /\ cache_lock' = cache_lock
             /\ UNCHANGED <<schedVars, fsVars>>]_vars

\* an event was handled, its timer has expired and trigger_update has ended,
\* with a snapshot published
C26_Witness ==
    /\ n_signals > 1
    /\ n_expired > 0
    /\ running_timers = 0
    /\ last_cache_update = 0
    /\ file_cache # <<>>

\* C27 (every event about a supported file invalidates): no event that
\* concerns a file with a supported extension, a rename from or to such a file
\* included, is handled without an invalidation request.
C27_SupportedEventInvalidates == ~missed_event

\* C30 (one logical change, one rebuild): when the watcher has delivered at
\* most one event, at most one reconciliation starts on a staleness marker
\* written by the watcher.
C30_OneRebuildPerEvent == (MaxEvents - ev_left <= 1) => event_cycles <= 1

\* the published snapshot agrees with the tree about path p: a supported file
\* that exists has a record with its st_mtime, any other path has none
Shows(p) ==
    IF fs[p] > 0 /\ WalkAccepts(p)
    THEN \E i \in 1..Len(file_cache) :
             file_cache[i].full_path = p /\ file_cache[i].modified = fs[p]
    ELSE \A i \in 1..Len(file_cache) : file_cache[i].full_path # p

\* the files that other programs leave alone
Untouched == Paths \ (1..MaxTouched)

\* C29 (eventual freshness): under fair scheduling of the updater, with a
\* readable tree and no shutdown, whatever state a file is left in (created,
\* written, deleted) is eventually shown by the published snapshot, next to
\* the files nobody touched, unless the file changes again first; no event of
\* the watcher is needed for it.
C29_EventuallyFresh ==
    \A p \in 1..MaxTouched : \A m \in 0..MaxMtime :
        (fs[p] = m) ~> (fs[p] # m \/ \A q \in {p} \cup Untouched : Shows(q))

\* all changes were made after the first cycle had started, the watcher has
\* delivered nothing, and the cycle forced by the expiry has published them,
\* a file that was written among them
C29_Witness ==
    /\ fs_left = 0
    /\ n_signals = 0
    /\ quiet_cycles = 1
    /\ pub_time > StartTime
    /\ pc_s = "l147"
    /\ \A p \in Paths : Shows(p)
    /\ \E i \in 1..Len(file_cache) : file_cache[i].full_path \in 1..MaxTouched

\* C31 (notification liveness): under fair scheduling, an open /updates
\* stream that knows an older version than the one published last eventually
\* yields a message that carries the version published last.
C31_StreamCatchesUp ==
    (pc_u # "closed" /\ last_version < pub_version) ~> (last_sent = pub_version)

\* the cache thread has left update_file_cache, was ended with the process or
\* was never started
CacheThreadEnded == pc_s \in {"done", "killed", "unstarted"}

\* the modelled time is over while the thread sleeps at line 147
ClockEnds == pc_s = "l147" /\ now = MaxTime

\* C32 (scheduler termination): once stop_event is set, no step of the cache
\* thread starts a reconciliation (lines 80-85), and the thread eventually
\* leaves its loop.
C32_StopEndsTheLoop ==
    /\ [][stop_event => ~(pc_s = "l80" /\ pc_s' = "l89")]_vars
    /\ (stop_event ~> (CacheThreadEnded \/ ClockEnds))

====
